---- MODULE Spec2Model ----
(***************************************************************************)
(* The MCQ extractor's line parser (src/extractor.py, parse_mcqs and the   *)
(* classifiers and normalizers it calls) as a state machine: one step per  *)
(* line of the for loop, and a last step for the code after the loop.      *)
(*                                                                         *)
(* A Python str is a sequence of one-character strings, so that the        *)
(* regular expressions of the classifiers and of the normalizers are       *)
(* computed character by character.  Python's None is the value None       *)
(* below for strings; current_question, a dict or None, is a sequence     *)
(* holding no or one question record.                                      *)
(*                                                                         *)
(* Spec is the parser run on one input.  SpecBot is the upload handler of  *)
(* src/bot.py, step by step, around extract_mcqs_from_pdf and the parser.  *)
(* SpecAgain is the parser called several times in a row.                  *)
(***************************************************************************)
EXTENDS Integers, Sequences, FiniteSets

VARIABLES
    lines,             \* text.split('\n')                       (line 124)
    images,            \* argument images: records with a path
    links,             \* argument links: uri strings
    i,                 \* position of the for loop (1-based)    (line 132)
    pc,                \* "loop" while in the for loop, then "done"
    structured_data,   \* (line 125)
    current_topic,     \* (line 126)
    current_question,  \* (line 127): << >> is None, <<q>> is the dict q
    current_options,   \* (line 128)
    question_counter,  \* (line 129)
    image_counter,     \* (line 130)
    result,            \* the value returned (lines 202-208)
    h_qline,           \* history: index of the line that opened current_question
    h_commits,         \* history: one entry per call of save_question
    h_records,         \* history: per record of structured_data, the line that appended it
    file_is_pdf,       \* document.file_name.lower().endswith('.pdf')   (bot.py line 49)
    b_pc,              \* position of handle_document                   (bot.py lines 44-100)
    temp_dir,          \* the directory of bot.py line 57: "none", "created", "removed" or "kept"
    fault,             \* the call that failed inside extract_mcqs_from_pdf, or "none"
    extract_raised,    \* whether extract_mcqs_from_pdf left by an exception
    extracted_data,    \* bot.py line 70
    sent,              \* the messages sent to the chat, in order
    t_idx,             \* position of the loop of bot.py line 106 (1-based)
    q_idx,             \* position of the loop of bot.py line 118, 0 before the topic header
    h_calls            \* history: input and result of the calls of parse_mcqs that returned

parserVars == <<lines, images, links, i, pc, structured_data, current_topic,
                current_question, current_options, question_counter,
                image_counter, result, h_qline, h_commits, h_records>>

\* what the callers of parse_mcqs own
hostVars == <<file_is_pdf, b_pc, temp_dir, fault, extract_raised, extracted_data,
              sent, t_idx, q_idx, h_calls>>

vars == <<parserVars, hostVars>>

-----------------------------------------------------------------------------
(* Bounds of the model.                                                    *)

MaxLines == 3
MaxImages == 1
MaxLinks == 1
MaxOpts == 3

-----------------------------------------------------------------------------
(* Characters and strings.                                                 *)

None == <<"<None>">>

UpperLetters == <<"A","B","C","D","E","F","G","H","I","J","K","L","M",
                  "N","O","P","Q","R","S","T","U","V","W","X","Y","Z">>
LowerLetters == <<"a","b","c","d","e","f","g","h","i","j","k","l","m",
                  "n","o","p","q","r","s","t","u","v","w","x","y","z">>
DigitChars == <<"0","1","2","3","4","5","6","7","8","9">>

Range(f) == {f[k] : k \in DOMAIN f}

Digits == Range(DigitChars)
Uppers == Range(UpperLetters)
Lowers == Range(LowerLetters)

IsDigit(c) == c \in Digits
IsSpace(c) == c = " "
IsUpperCh(c) == c \in Uppers
IsLowerCh(c) == c \in Lowers

\* str.lower() on the upper-case letters
LowerOf ==
    [c \in Uppers |->
        LowerLetters[CHOOSE k \in DOMAIN UpperLetters : UpperLetters[k] = c]]

\* str.lower() on one character
LowerCh(c) == IF IsUpperCh(c) THEN LowerOf[c] ELSE c

\* str.lower()
Lower(s) == [k \in 1..Len(s) |-> LowerCh(s[k])]

\* str.isupper(): at least one cased character and no lower-case one
IsUpperStr(s) ==
    /\ \E k \in 1..Len(s) : IsUpperCh(s[k])
    /\ \A k \in 1..Len(s) : ~IsLowerCh(s[k])

\* c in s
HasChar(s, c) == \E k \in 1..Len(s) : s[k] = c

\* sub in s
Contains(s, sub) ==
    \E k \in 0..(Len(s) - Len(sub)) : \A j \in 1..Len(sub) : s[k + j] = sub[j]

\* s.startswith(p)
StartsWith(s, p) == Len(s) >= Len(p) /\ \A j \in 1..Len(p) : s[j] = p[j]

\* s[p-1:] for a 1-based position p
From(s, p) == SubSeq(s, p, Len(s))

\* len(s.split()): the number of maximal runs of non-space characters
WordCount(s) ==
    Cardinality({k \in 1..Len(s) :
                    /\ ~IsSpace(s[k])
                    /\ (k = 1 \/ IsSpace(s[k - 1]))})

\* str.strip()
Strip(s) ==
    IF \A k \in 1..Len(s) : IsSpace(s[k]) THEN << >>
    ELSE LET lo == CHOOSE k \in 1..Len(s) :
                      ~IsSpace(s[k]) /\ \A m \in 1..(k - 1) : IsSpace(s[m])
             hi == CHOOSE k \in 1..Len(s) :
                      ~IsSpace(s[k]) /\ \A m \in (k + 1)..Len(s) : IsSpace(s[m])
         IN  SubSeq(s, lo, hi)

\* The position after a greedy \s* (resp. \d*) that starts at position p.
SkipSpaces(s, p) ==
    CHOOSE q \in p..(Len(s) + 1) :
        /\ \A k \in p..(q - 1) : IsSpace(s[k])
        /\ (q = Len(s) + 1 \/ ~IsSpace(s[q]))

SkipDigits(s, p) ==
    CHOOSE q \in p..(Len(s) + 1) :
        /\ \A k \in p..(q - 1) : IsDigit(s[k])
        /\ (q = Len(s) + 1 \/ ~IsDigit(s[q]))

\* s[p] is one of the characters of set (false past the end of s)
CharIn(s, p, set) == p >= 1 /\ p <= Len(s) /\ s[p] \in set

\* The position after an optional character of set at position p
SkipOpt(s, p, set) == IF CharIn(s, p, set) THEN p + 1 ELSE p

\* The first word of words (in order) that s starts with, ignoring case,
\* as the alternation (w1|w2|...) of a regular expression picks it;
\* << >> when there is none.
FirstWord(s, words) ==
    LET hit == {k \in DOMAIN words : StartsWith(Lower(s), words[k])}
    IN  IF hit = {} THEN << >>
        ELSE words[CHOOSE k \in hit : \A m \in hit : k <= m]

-----------------------------------------------------------------------------
(* The classifiers (lines 211-275).                                        *)

\* topic_indicators (line 218)
topic_indicators ==
    << <<"c","h","a","p","t","e","r">>,
       <<"u","n","i","t">>,
       <<"s","e","c","t","i","o","n">>,
       <<"t","o","p","i","c">>,
       <<"p","a","r","t">> >>

\* answer_indicators (lines 269-272)
answer_indicators ==
    << <<"a","n","s","w","e","r">>,
       <<"c","o","r","r","e","c","t"," ","a","n","s","w","e","r">>,
       <<"c","o","r","r","e","c","t"," ","o","p","t","i","o","n">>,
       <<"a","n","s",":">>,
       <<"a","n","s",".">>,
       <<"s","o","l","u","t","i","o","n">>,
       <<"c","o","r","r","e","c","t",":">> >>

\* any(indicator in s for indicator in words) (lines 219 and 275)
AnyIn(words, s) == {k \in DOMAIN words : Contains(s, words[k])} # {}

\* is_topic (lines 211-227); line is stripped and not empty
is_topic(line) ==
    IF IsUpperStr(line) /\ WordCount(line) >= 2 THEN TRUE
    ELSE IF AnyIn(topic_indicators, Lower(line)) THEN TRUE
    ELSE IF /\ Len(line) < 50
            /\ ~HasChar(line, "?") /\ ~HasChar(line, "(") /\ ~HasChar(line, ")")
            /\ ~IsDigit(line[1])
            /\ ~HasChar(line, ":")
         THEN TRUE
    ELSE FALSE

\* [\.\:)]
NumberingMarks == {".", ":", ")"}

\* is_question (lines 230-248); the patterns of lines 234-237 ignore case
is_question(line) ==
    LET isQ == CharIn(Lower(line), 1, {"q"})
    IN  IF isQ /\ SkipDigits(line, 2) > 2 /\ CharIn(line, SkipDigits(line, 2), NumberingMarks)
        THEN TRUE
        ELSE IF isQ /\ CharIn(line, 2, NumberingMarks) THEN TRUE
        ELSE IF SkipDigits(line, 1) > 1 /\ CharIn(line, SkipDigits(line, 1), NumberingMarks)
        THEN TRUE
        ELSE IF /\ StartsWith(Lower(line), <<"q","u","e","s","t","i","o","n">>)
                /\ CharIn(line, SkipDigits(line, SkipSpaces(line, 9)), {".", ":"})
        THEN TRUE
        ELSE HasChar(line, "?")

\* [A-Fa-f]
OptionLetters == {"A","B","C","D","E","F","a","b","c","d","e","f"}

\* [A-Fa-f\d]
OptionOrDigit == OptionLetters \cup Digits

\* is_option (lines 251-264)
is_option(line) ==
    LET p == SkipOpt(line, 1, {"("})
    IN  IF CharIn(line, p, OptionLetters) /\ CharIn(line, p + 1, {")", "."}) THEN TRUE
        ELSE IF SkipDigits(line, p) > p /\ CharIn(line, SkipDigits(line, p), {")", "."})
        THEN TRUE
        ELSE CharIn(line, 1, {"["}) /\ CharIn(line, 2, OptionLetters)
             /\ CharIn(line, 3, {"]"})

\* is_answer (lines 267-275)
is_answer(line) == AnyIn(answer_indicators, Lower(line))

-----------------------------------------------------------------------------
(* The normalizers (lines 278-304).  Each re.sub removes at most the one   *)
(* match at the start of the line (the patterns begin with ^).             *)

\* a variant of clean_topic whose pattern does not ignore case
clean_topic_cased(line) ==
    LET hit == {k \in DOMAIN topic_indicators : StartsWith(line, topic_indicators[k])}
        w == IF hit = {} THEN << >> ELSE topic_indicators[CHOOSE k \in hit : TRUE]
        p1 == SkipSpaces(line, Len(w) + 1)
        p2 == SkipDigits(line, p1)
        p3 == SkipOpt(line, p2, {":", "."})
        p4 == SkipSpaces(line, p3)
    IN  IF w = << >> THEN Strip(line) ELSE Strip(From(line, p4))

\* clean_topic (lines 278-282)
clean_topic(line) ==
    LET w == FirstWord(line, topic_indicators)
        p1 == SkipSpaces(line, Len(w) + 1)
        p2 == SkipDigits(line, p1)
        p3 == SkipOpt(line, p2, {":", "."})
        p4 == SkipSpaces(line, p3)
    IN  IF w = << >> THEN Strip(line) ELSE Strip(From(line, p4))

\* The end of a match of \s*\d*[\.\:\)]\s* that starts at position p, or 0
\* when there is none (the three classes are disjoint, so the greedy match
\* is the only one).
NumberingEnd(line, p) ==
    LET p2 == SkipDigits(line, SkipSpaces(line, p))
    IN  IF CharIn(line, p2, NumberingMarks) THEN SkipSpaces(line, p2 + 1) ELSE 0

\* line 288: re.sub(r'^(Q|Question)\s*\d*[\.\:\)]\s*', '', line, IGNORECASE);
\* the alternative Q is tried first, Question when Q leads to no match
SubQPrefix(line) ==
    LET asQ == IF CharIn(Lower(line), 1, {"q"}) THEN NumberingEnd(line, 2) ELSE 0
        asQuestion == IF StartsWith(Lower(line), <<"q","u","e","s","t","i","o","n">>)
                      THEN NumberingEnd(line, 9) ELSE 0
    IN  IF asQ > 0 THEN From(line, asQ)
        ELSE IF asQuestion > 0 THEN From(line, asQuestion)
        ELSE line

\* line 289: re.sub(r'^\d+[\.\:\)]\s*', '', line)
SubNumber(line) ==
    LET p == SkipDigits(line, 1)
    IN  IF p > 1 /\ CharIn(line, p, NumberingMarks)
        THEN From(line, SkipSpaces(line, p + 1))
        ELSE line

\* clean_question (lines 285-290)
clean_question(line) == Strip(SubNumber(SubQPrefix(line)))

\* clean_option (lines 293-297): ^[\(\[]?[A-Fa-f\d][\)\.\]]\s*
clean_option(line) ==
    LET p == SkipOpt(line, 1, {"(", "["})
        ok(q) == /\ CharIn(line, q, OptionOrDigit)
                 /\ CharIn(line, q + 1, {")", ".", "]"})
    IN  IF ok(p) THEN Strip(From(line, SkipSpaces(line, p + 2))) ELSE Strip(line)

\* the alternation of line 303, in its order
answer_prefixes ==
    << <<"a","n","s","w","e","r">>,
       <<"c","o","r","r","e","c","t"," ","a","n","s","w","e","r">>,
       <<"c","o","r","r","e","c","t"," ","o","p","t","i","o","n">>,
       <<"a","n","s">>,
       <<"s","o","l","u","t","i","o","n">>,
       <<"c","o","r","r","e","c","t">> >>

\* clean_answer (lines 300-304)
clean_answer(line) ==
    LET w == FirstWord(line, answer_prefixes)
        p1 == SkipOpt(line, Len(w) + 1, {":", "."})
        p2 == SkipSpaces(line, p1)
    IN  IF w = << >> THEN Strip(line) ELSE Strip(From(line, p2))

-----------------------------------------------------------------------------
(* The inputs of the model: concrete lines, each classified by the code's  *)
(* own predicates.                                                         *)

\* "UNIT ONE KINEMATICS"
L_Unit == <<"U", "N", "I", "T", " ", "O", "N", "E", " ", "K", "I", "N", "E", "M", "A", "T", "I", "C", "S">>
\* "UNIT 2: AB"
L_Unit2 == <<"U", "N", "I", "T", " ", "2", ":", " ", "A", "B">>
\* "Q1. x?"
L_Q1 == <<"Q", "1", ".", " ", "x", "?">>
\* "A. Rome"
L_Rome == <<"A", ".", " ", "R", "o", "m", "e">>
\* "Q1. What is speed?"
L_Speed == <<"Q", "1", ".", " ", "W", "h", "a", "t", " ", "i", "s", " ", "s", "p", "e", "e", "d", "?">>
\* "1) 2) x"
L_Nested == <<"1", ")", " ", "2", ")", " ", "x">>
\* "(a) Paris"
L_Paris == <<"(", "a", ")", " ", "P", "a", "r", "i", "s">>
\* "(b) London"
L_London == <<"(", "b", ")", " ", "L", "o", "n", "d", "o", "n">>
\* "(c) Rome"
L_RomeOpt == <<"(", "c", ")", " ", "R", "o", "m", "e">>
\* "(a) Distance"
L_Dist == <<"(", "a", ")", " ", "D", "i", "s", "t", "a", "n", "c", "e">>
\* "(b) Distance/Time"
L_DistTime == <<"(", "b", ")", " ", "D", "i", "s", "t", "a", "n", "c", "e", "/", "T", "i", "m", "e">>
\* "(c) Time/Distance"
L_TimeDist == <<"(", "c", ")", " ", "T", "i", "m", "e", "/", "D", "i", "s", "t", "a", "n", "c", "e">>
\* "Answer: b"
L_AnswerB == <<"A", "n", "s", "w", "e", "r", ":", " ", "b">>
\* "ans: c"
L_AnsC == <<"a", "n", "s", ":", " ", "c">>
\* "x: y"
L_Cont == <<"x", ":", " ", "y">>
\* " "
L_Blank == <<" ">>
\* "A. unit ans:?"
L_All == <<"A", ".", " ", "u", "n", "i", "t", " ", "a", "n", "s", ":", "?">>
\* "1) ans: x"
L_QOA == <<"1", ")", " ", "a", "n", "s", ":", " ", "x">>
\* "(a) ans: b"
L_OptAns == <<"(", "a", ")", " ", "a", "n", "s", ":", " ", "b">>
\* "Q:"
L_Empty == <<"Q", ":">>

TopicLines == {L_Unit, L_Rome}
QuestionLines == {L_Speed, L_Nested}
OptionFamilies == {{L_Paris, L_London, L_RomeOpt}, {L_Dist, L_DistTime, L_TimeDist}}
AnswerLines == {L_AnswerB, L_AnsC}

\* the lines of the documents of arbitrary shape
Vocabulary ==
    {L_Unit2, L_Rome, L_Q1, L_Nested, L_Paris, L_London, L_AnswerB, L_AnsC, L_Cont,
     L_Blank}

\* lines that satisfy several of the predicates of lines 139, 156, 176 and
\* 182 at once, a Question line whose normalized text is empty, and a line
\* that satisfies none
OverlapLines == {L_All, L_QOA, L_OptAns, L_Empty, L_Cont}

BoundedSeq(S, n) == UNION {[1..k -> S] : k \in 0..n}

\* documents of one Topic line, one Question line, n Option lines and one
\* Answer line
ShapedDocs ==
    {<<t, q>> \o opts \o <<a>> :
        t \in TopicLines, q \in QuestionLines, a \in AnswerLines,
        opts \in UNION {BoundedSeq(F, MaxOpts) : F \in OptionFamilies}}

\* the images list built by extract_images_from_page (lines 80-84) and the
\* links list built by extract_links_from_page (line 104), n entries each
ImageList(n) ==
    [k \in 1..n |-> [page |-> 0, index |-> k - 1, path |-> <<"img", DigitChars[k]>>]]
LinkList(n) == [k \in 1..n |-> <<"video", DigitChars[k]>>]

-----------------------------------------------------------------------------
(* The classifiers and the normalizers are functions of the line alone:    *)
(* they are tabulated once over the lines of the inputs above.             *)

InputLines ==
    Vocabulary \cup OverlapLines \cup TopicLines \cup QuestionLines
        \cup AnswerLines \cup UNION OptionFamilies

\* line.strip() (line 133)
Stripped == [l \in InputLines |-> Strip(l)]

\* the lines the loop body goes on with (line 135)
LineTexts == {Stripped[l] : l \in InputLines} \ {<< >>}

IsTopic == [line \in LineTexts |-> is_topic(line)]
IsQuestion == [line \in LineTexts |-> is_question(line)]
IsOption == [line \in LineTexts |-> is_option(line)]
IsAnswer == [line \in LineTexts |-> is_answer(line)]
CleanTopic == [line \in LineTexts |-> clean_topic(line)]
CleanQuestion == [line \in LineTexts |-> clean_question(line)]
CleanOption == [line \in LineTexts |-> clean_option(line)]
CleanAnswer == [line \in LineTexts |-> clean_answer(line)]

-----------------------------------------------------------------------------
(* parse_mcqs (lines 112-208) and save_question (lines 307-329).           *)

GeneralQuestions == <<"G","e","n","e","r","a","l"," ","Q","u","e","s","t","i","o","n","s">>

\* a variant of line 324 without the fallback name
TopicAsGiven(topic) == topic

\* topic or 'General Questions' (line 324): None and '' are falsy
TopicOrDefault(topic) ==
    IF topic = None \/ topic = << >> THEN GeneralQuestions ELSE topic

\* a variant of lines 313-319 that reuses the last entry of a list once
\* image_index is past its end
AssignAssetsClamped(question, imgs, lnks, image_index) ==
    LET at(list) == IF image_index < Len(list) THEN image_index + 1 ELSE Len(list)
    IN  [question EXCEPT
            !.image = IF imgs # << >> THEN imgs[at(imgs)].path ELSE @,
            !.video_link = IF lnks # << >> THEN lnks[at(lnks)] ELSE @]

\* lines 313-319: the question with the image and the link of image_index
AssignAssets(question, imgs, lnks, image_index) ==
    [question EXCEPT
        !.image = IF image_index < Len(imgs) THEN imgs[image_index + 1].path ELSE @,
        !.video_link = IF image_index < Len(lnks) THEN lnks[image_index + 1] ELSE @]

\* a variant of lines 321-329 that puts the question before the others of
\* the last record
PrependToLast(sd, topic, question) ==
    LET sd1 == IF sd = << >>
               THEN <<[topic |-> TopicOrDefault(topic), questions |-> << >>]>>
               ELSE sd
    IN  [sd1 EXCEPT ![Len(sd1)].questions = <<question>> \o @]

\* a variant of lines 321-329 that adds the question to the first record
AppendToFirst(sd, topic, question) ==
    LET sd1 == IF sd = << >>
               THEN <<[topic |-> TopicOrDefault(topic), questions |-> << >>]>>
               ELSE sd
    IN  [sd1 EXCEPT ![1].questions = Append(@, question)]

\* lines 321-329: the record list with question added to its last record
AppendToLast(sd, topic, question) ==
    LET sd1 == IF sd = << >>
               THEN <<[topic |-> TopicOrDefault(topic), questions |-> << >>]>>
               ELSE sd
    IN  [sd1 EXCEPT ![Len(sd1)].questions = Append(@, question)]

\* the question as save_question leaves it (lines 311-319)
Finished(question, options, imgs, lnks, image_index) ==
    AssignAssets([question EXCEPT !.options = options], imgs, lnks, image_index)

\* save_question (lines 307-329): the new structured_data
save_question(sd, topic, question, options, imgs, lnks, image_index) ==
    AppendToLast(sd, topic, Finished(question, options, imgs, lnks, image_index))

\* the dict of lines 164-170
NewQuestion(line) ==
    [question |-> CleanQuestion[line], options |-> << >>, answer |-> None,
     image |-> None, video_link |-> None]

\* the subsequence of seq at the positions of the set K, in order
SubAt(seq, K) ==
    [j \in 1..Cardinality(K) |->
        seq[CHOOSE k \in K : Cardinality({m \in K : m <= k}) = j]]

\* a variant of line 202 that removes nothing
KeptAll(sd) == 1..Len(sd)

\* line 202: the positions of the records that hold a question
Kept(sd) == {k \in 1..Len(sd) : sd[k].questions # << >>}

\* line 202: [topic for topic in structured_data if topic['questions']]
RemoveEmpty(sd) == SubAt(sd, Kept(sd))

\* parse_mcqs called on its own: no upload is being handled
HostIdle ==
    /\ file_is_pdf = FALSE
    /\ b_pc = "idle"
    /\ temp_dir = "none"
    /\ fault = "none"
    /\ extract_raised = FALSE
    /\ extracted_data = << >>
    /\ sent = << >>
    /\ t_idx = 0
    /\ q_idx = 0
    /\ h_calls = << >>

Init ==
    /\ \/ /\ lines \in BoundedSeq(Vocabulary, MaxLines)
          /\ images \in {ImageList(n) : n \in 0..MaxImages}
          /\ links \in {LinkList(n) : n \in 0..MaxLinks}
       \/ /\ lines \in ShapedDocs
          /\ images = << >>
          /\ links = << >>
       \/ /\ lines \in BoundedSeq(OverlapLines, MaxLines)
          /\ images = << >>
          /\ links = << >>
    /\ i = 1
    /\ pc = "loop"
    /\ structured_data = << >>
    /\ current_topic = None
    /\ current_question = << >>
    /\ current_options = << >>
    /\ question_counter = 0
    /\ image_counter = 0
    /\ result = << >>
    /\ h_qline = 0
    /\ h_commits = << >>
    /\ h_records = << >>
    /\ HostIdle

\* line 133: the line the loop body works on
Line == Stripped[lines[i]]

InLoop == pc = "loop" /\ i <= Len(lines)

Open == current_question # << >>

\* the record list after the save_question call of lines 142, 159 and 198
Saved ==
    save_question(structured_data, current_topic, current_question[1],
                  current_options, images, links, image_counter)

\* history of the save_question call made in this step
LogCommit ==
    h_commits' = Append(h_commits,
            [line |-> h_qline, at |-> i, index |-> image_counter,
             q |-> Finished(current_question[1], current_options, images, links,
                            image_counter)])

\* history of the record that save_question creates when there is none
RecordsAfterSave == IF structured_data = << >> THEN <<0>> ELSE h_records

\* lines 135-136
SkipBlank ==
    /\ InLoop
    /\ Line = << >>
    /\ i' = i + 1
    /\ UNCHANGED <<lines, images, links, pc, structured_data, current_topic,
                   current_question, current_options, question_counter,
                   image_counter, result, h_qline, h_commits, h_records>>
    /\ UNCHANGED hostVars

\* a variant of lines 139-153 that appends the record of the new topic
\* before it saves the open question
TopicLineLateCommit ==
    /\ InLoop
    /\ Line # << >>
    /\ IsTopic[Line]
    /\ LET appended == Append(structured_data,
                              [topic |-> CleanTopic[Line], questions |-> << >>])
       IN  IF Open
           THEN /\ structured_data' =
                     save_question(appended, CleanTopic[Line], current_question[1],
                                   current_options, images, links, image_counter)
                /\ current_question' = << >>
                /\ current_options' = << >>
                /\ LogCommit
                /\ h_records' = Append(h_records, i)
           ELSE /\ structured_data' = appended
                /\ h_records' = Append(h_records, i)
                /\ UNCHANGED <<current_question, current_options, h_commits>>
    /\ current_topic' = CleanTopic[Line]
    /\ i' = i + 1
    /\ UNCHANGED <<lines, images, links, pc, question_counter, image_counter,
                   result, h_qline>>
    /\ UNCHANGED hostVars

\* a variant of lines 139-153 that counts the commit of line 142
TopicLineCounting ==
    /\ InLoop
    /\ Line # << >>
    /\ IsTopic[Line]
    /\ IF Open
       THEN /\ structured_data' =
                 Append(Saved, [topic |-> CleanTopic[Line], questions |-> << >>])
            /\ current_question' = << >>
            /\ current_options' = << >>
            /\ image_counter' = image_counter + 1
            /\ LogCommit
            /\ h_records' = Append(RecordsAfterSave, i)
       ELSE /\ structured_data' =
                 Append(structured_data,
                        [topic |-> CleanTopic[Line], questions |-> << >>])
            /\ h_records' = Append(h_records, i)
            /\ UNCHANGED <<current_question, current_options, image_counter,
                           h_commits>>
    /\ current_topic' = CleanTopic[Line]
    /\ i' = i + 1
    /\ UNCHANGED <<lines, images, links, pc, question_counter, result, h_qline>>
    /\ UNCHANGED hostVars

\* lines 139-153
TopicLine ==
    /\ InLoop
    /\ Line # << >>
    /\ IsTopic[Line]
    /\ IF Open
       THEN /\ structured_data' =
                 Append(Saved, [topic |-> CleanTopic[Line], questions |-> << >>])
            /\ current_question' = << >>
            /\ current_options' = << >>
            /\ LogCommit
            /\ h_records' = Append(RecordsAfterSave, i)
       ELSE /\ structured_data' =
                 Append(structured_data,
                        [topic |-> CleanTopic[Line], questions |-> << >>])
            /\ h_records' = Append(h_records, i)
            /\ UNCHANGED <<current_question, current_options, h_commits>>
    /\ current_topic' = CleanTopic[Line]
    /\ i' = i + 1
    /\ UNCHANGED <<lines, images, links, pc, question_counter, image_counter,
                   result, h_qline>>
    /\ UNCHANGED hostVars

\* a variant of lines 156-173 that does not wait for line 139 to fail
QuestionBeforeTopic ==
    /\ InLoop
    /\ Line # << >>
    /\ IsQuestion[Line]
    /\ IF Open
       THEN /\ structured_data' = Saved
            /\ image_counter' = image_counter + 1
            /\ LogCommit
            /\ h_records' = RecordsAfterSave
       ELSE UNCHANGED <<structured_data, image_counter, h_commits, h_records>>
    /\ current_question' = <<NewQuestion(Line)>>
    /\ current_options' = << >>
    /\ question_counter' = question_counter + 1
    /\ h_qline' = i
    /\ i' = i + 1
    /\ UNCHANGED <<lines, images, links, pc, current_topic, result>>
    /\ UNCHANGED hostVars

\* lines 156-173
QuestionLine ==
    /\ InLoop
    /\ Line # << >>
    /\ ~IsTopic[Line]
    /\ IsQuestion[Line]
    /\ IF Open
       THEN /\ structured_data' = Saved
            /\ image_counter' = image_counter + 1
            /\ LogCommit
            /\ h_records' = RecordsAfterSave
       ELSE UNCHANGED <<structured_data, image_counter, h_commits, h_records>>
    /\ current_question' = <<NewQuestion(Line)>>
    /\ current_options' = << >>
    /\ question_counter' = question_counter + 1
    /\ h_qline' = i
    /\ i' = i + 1
    /\ UNCHANGED <<lines, images, links, pc, current_topic, result>>
    /\ UNCHANGED hostVars

\* a variant of line 178 that drops an option text already collected
AddOptionUnique(options, option_text) ==
    IF \E k \in 1..Len(options) : options[k] = option_text
    THEN options ELSE Append(options, option_text)

\* line 178: current_options.append(option_text)
AddOption(options, option_text) == Append(options, option_text)

\* lines 176-179
OptionLine ==
    /\ InLoop
    /\ Line # << >>
    /\ ~IsTopic[Line]
    /\ ~IsQuestion[Line]
    /\ Open
    /\ IsOption[Line]
    /\ current_options' = AddOption(current_options, CleanOption[Line])
    /\ i' = i + 1
    /\ UNCHANGED <<lines, images, links, pc, structured_data, current_topic,
                   current_question, question_counter, image_counter, result,
                   h_qline, h_commits, h_records>>
    /\ UNCHANGED hostVars

\* a variant of line 184 that keeps an answer already set
SetAnswerOnce(question, answer_text) ==
    IF question.answer = None THEN [question EXCEPT !.answer = answer_text] ELSE question

\* line 184
SetAnswer(question, answer_text) == [question EXCEPT !.answer = answer_text]

\* lines 182-185
AnswerLine ==
    /\ InLoop
    /\ Line # << >>
    /\ ~IsTopic[Line]
    /\ ~IsQuestion[Line]
    /\ Open
    /\ ~IsOption[Line]
    /\ IsAnswer[Line]
    /\ current_question' = <<SetAnswer(current_question[1], CleanAnswer[Line])>>
    /\ i' = i + 1
    /\ UNCHANGED <<lines, images, links, pc, structured_data, current_topic,
                   current_options, question_counter, image_counter, result,
                   h_qline, h_commits, h_records>>
    /\ UNCHANGED hostVars

\* lines 188-194
ContinuationLine ==
    /\ InLoop
    /\ Line # << >>
    /\ ~IsTopic[Line]
    /\ ~IsQuestion[Line]
    /\ Open
    /\ ~IsOption[Line]
    /\ ~IsAnswer[Line]
    /\ IF current_options # << >>
       THEN /\ current_options' =
                 [current_options EXCEPT ![Len(current_options)] = @ \o <<" ">> \o Line]
            /\ UNCHANGED current_question
       ELSE IF current_question[1].question # << >>
       THEN /\ current_question' =
                 <<[current_question[1] EXCEPT !.question = @ \o <<" ">> \o Line]>>
            /\ UNCHANGED current_options
       ELSE UNCHANGED <<current_question, current_options>>
    /\ i' = i + 1
    /\ UNCHANGED <<lines, images, links, pc, structured_data, current_topic,
                   question_counter, image_counter, result, h_qline, h_commits,
                   h_records>>
    /\ UNCHANGED hostVars

\* a variant of line 176 without the test of current_question: a line of
\* the Option pattern is collected with no question open
DiscardKeepsOption ==
    /\ InLoop
    /\ Line # << >>
    /\ ~IsTopic[Line]
    /\ ~IsQuestion[Line]
    /\ ~Open
    /\ current_options' =
          IF IsOption[Line] THEN Append(current_options, CleanOption[Line])
          ELSE current_options
    /\ i' = i + 1
    /\ UNCHANGED <<lines, images, links, pc, structured_data, current_topic,
                   current_question, question_counter, image_counter, result,
                   h_qline, h_commits, h_records>>
    /\ UNCHANGED hostVars

\* lines 176, 182 and 188 with no question open: the line is dropped
DiscardLine ==
    /\ InLoop
    /\ Line # << >>
    /\ ~IsTopic[Line]
    /\ ~IsQuestion[Line]
    /\ ~Open
    /\ i' = i + 1
    /\ UNCHANGED <<lines, images, links, pc, structured_data, current_topic,
                   current_question, current_options, question_counter,
                   image_counter, result, h_qline, h_commits, h_records>>
    /\ UNCHANGED hostVars

\* a variant of lines 196-208 without the save of lines 197-199
FinishWithoutSave ==
    /\ pc = "loop"
    /\ i > Len(lines)
    /\ structured_data' = RemoveEmpty(structured_data)
    /\ result' = RemoveEmpty(structured_data)
    /\ h_records' = SubAt(h_records, Kept(structured_data))
    /\ pc' = "done"
    /\ UNCHANGED <<lines, images, links, i, current_topic, current_question,
                   current_options, question_counter, image_counter, h_qline,
                   h_commits>>
    /\ UNCHANGED hostVars

\* lines 196-208: the last question is saved, the empty records are removed
\* and the list is returned
Finish ==
    /\ pc = "loop"
    /\ i > Len(lines)
    /\ LET sd == IF Open THEN Saved ELSE structured_data
           hr == IF Open THEN RecordsAfterSave ELSE h_records
       IN  /\ structured_data' = RemoveEmpty(sd)
           /\ result' = RemoveEmpty(sd)
           /\ h_records' = SubAt(hr, Kept(sd))
    /\ IF Open THEN LogCommit ELSE UNCHANGED h_commits
    /\ pc' = "done"
    /\ UNCHANGED <<lines, images, links, i, current_topic, current_question,
                   current_options, question_counter, image_counter, h_qline>>
    /\ UNCHANGED hostVars

Next ==
    \/ SkipBlank
    \/ TopicLine
    \/ QuestionLine
    \/ OptionLine
    \/ AnswerLine
    \/ ContinuationLine
    \/ DiscardLine
    \/ Finish

Spec == Init /\ [][Next]_vars

-----------------------------------------------------------------------------
(* The input as the loop classifies it (lines 135, 139, 156, 176, 182 and  *)
(* 188), line by line.                                                     *)

StrippedLine(k) == Stripped[lines[k]]
NonBlank(k) == StrippedLine(k) # << >>
IsTopicAt(k) == NonBlank(k) /\ IsTopic[StrippedLine(k)]
IsQuestionAt(k) ==
    NonBlank(k) /\ ~IsTopic[StrippedLine(k)] /\ IsQuestion[StrippedLine(k)]
IsBoundaryAt(k) == IsTopicAt(k) \/ IsQuestionAt(k)

\* the lines below are classified so while a question is open
IsOptionAt(k) == NonBlank(k) /\ ~IsBoundaryAt(k) /\ IsOption[StrippedLine(k)]
IsAnswerAt(k) ==
    /\ NonBlank(k) /\ ~IsBoundaryAt(k)
    /\ ~IsOption[StrippedLine(k)] /\ IsAnswer[StrippedLine(k)]
IsContinuationAt(k) ==
    /\ NonBlank(k) /\ ~IsBoundaryAt(k)
    /\ ~IsOption[StrippedLine(k)] /\ ~IsAnswer[StrippedLine(k)]

Min(S) == CHOOSE k \in S : \A m \in S : k <= m
Max(S) == CHOOSE k \in S : \A m \in S : k >= m

\* the first Topic or Question line after line k, or the end of the input
BoundaryAfter(k) ==
    Min({m \in (k + 1)..Len(lines) : IsBoundaryAt(m)} \cup {Len(lines) + 1})

\* the lines read while the question of the j-th commit was open
Body(j) == (h_commits[j].line + 1)..(BoundaryAfter(h_commits[j].line) - 1)

Commits == 1..Len(h_commits)

-----------------------------------------------------------------------------
(* C1: each committed question is correlated with an asset index equal to  *)
(* the number of questions committed before it, so that with two committed *)
(* questions and one image the first has the image and the second none.    *)
C1_IndexIsCommitCount ==
    /\ \A j \in Commits : h_commits[j].index = j - 1
    /\ (Len(h_commits) = 2 /\ Len(images) = 1) =>
          /\ h_commits[1].q.image = images[1].path
          /\ h_commits[2].q.image = None

(* C2 as stated: of several Answer lines read while a question is open,    *)
(* the first gives the committed answer.                                    *)
AnswerLinesOf(j) == {k \in Body(j) : IsAnswerAt(k)}

C2_FirstAnswerWins ==
    \A j \in Commits :
        AnswerLinesOf(j) # {} =>
            h_commits[j].q.answer = CleanAnswer[StrippedLine(Min(AnswerLinesOf(j)))]

(* C2 amended: of several Answer lines read while a question is open, the  *)
(* LAST gives the committed answer: each Answer line overwrites the value  *)
(* set before it.                                                           *)
C2_LastAnswerWins ==
    \A j \in Commits :
        AnswerLinesOf(j) # {} =>
            h_commits[j].q.answer = CleanAnswer[StrippedLine(Max(AnswerLinesOf(j)))]

\* a committed question that had two Answer lines with different texts
C2_Witness ==
    \E j \in Commits :
        /\ Cardinality(AnswerLinesOf(j)) >= 2
        /\ CleanAnswer[StrippedLine(Min(AnswerLinesOf(j)))]
              # CleanAnswer[StrippedLine(Max(AnswerLinesOf(j)))]

\* Topic lines k < m with no Question line between them
TopicThenTopic(k, m) ==
    /\ k < m
    /\ IsTopicAt(k) /\ IsTopicAt(m)
    /\ \A n \in (k + 1)..(m - 1) : ~IsQuestionAt(n)

\* the questions of the record that the Topic line k appended, << >> when
\* the record is not (or no longer) in structured_data
QuestionsOfTopic(k) ==
    LET R == {r \in 1..Len(structured_data) : h_records[r] = k}
    IN  IF R = {} THEN << >> ELSE structured_data[Min(R)].questions

(* C3 as stated: when a Topic line follows a Topic line with no Question   *)
(* line between them, the record of the SECOND holds no question and is    *)
(* not in the final output.                                                 *)
C3_SecondTopicEmpty ==
    \A k, m \in 1..Len(lines) : TopicThenTopic(k, m) => QuestionsOfTopic(m) = << >>

(* C3 amended: when a Topic line is followed by a Topic line with no       *)
(* Question line between them, the record of the FIRST holds no question   *)
(* and is not in the final output, whatever lines follow.                   *)
C3_FirstTopicEmpty ==
    \A k, m \in 1..Len(lines) : TopicThenTopic(k, m) => QuestionsOfTopic(k) = << >>

\* two Topic lines in a row, then a question that reached the output
C3_Witness ==
    /\ pc = "done"
    /\ \E k, m \in 1..Len(lines) :
          /\ TopicThenTopic(k, m)
          /\ \E j \in Commits : h_commits[j].line > m

\* the questions of the records of sd, record after record
RECURSIVE Flatten(_)
Flatten(sd) == IF sd = << >> THEN << >> ELSE Head(sd).questions \o Flatten(Tail(sd))

\* the name of the record appended by the Topic line k (0: by save_question)
TopicNameOf(k) == IF k = 0 THEN GeneralQuestions ELSE CleanTopic[StrippedLine(k)]

Home(j) == Max({k \in 1..(h_commits[j].at - 1) : IsTopicAt(k)} \cup {0})

(* C6: a committed question is in the record that was the most recently   *)
(* appended one when it was committed; when there was none, it is in a     *)
(* record named "General Questions" created by that commit.                *)
C6_CommitToLastRecord ==
    /\ \A j \in Commits : \E r \in 1..Len(structured_data) : h_records[r] = Home(j)
    /\ \A r \in 1..Len(structured_data) :
          /\ structured_data[r].questions =
                SubAt([j \in Commits |-> h_commits[j].q],
                      {j \in Commits : Home(j) = h_records[r]})
          /\ h_records[r] = 0 =>
                r = 1 /\ structured_data[r].topic = GeneralQuestions

\* an output with the "General Questions" record and a Topic line's record
C6_Witness ==
    /\ pc = "done"
    /\ Len(result) >= 2
    /\ h_records[1] = 0

OptionLinesOf(j) == {k \in Body(j) : IsOptionAt(k)}

(* C7 as stated: the options of a committed question are exactly the      *)
(* normalized texts of the Option lines read while it was open, in order.  *)
C7_OptionsAreOptionLines ==
    \A j \in Commits :
        h_commits[j].q.options =
            SubAt([k \in 1..Len(lines) |-> CleanOption[StrippedLine(k)]],
                  OptionLinesOf(j))

\* " " + line for each Continuation line among the lines a..b, in order
RECURSIVE ContinuationText(_, _)
ContinuationText(a, b) ==
    IF a > b THEN << >>
    ELSE (IF IsContinuationAt(a) THEN <<" ">> \o StrippedLine(a) ELSE << >>)
         \o ContinuationText(a + 1, b)

\* the Option line k of the j-th commit, normalized, with the Continuation
\* lines read before the next Option line
OptionWithContinuations(j, k) ==
    LET next == Min({m \in OptionLinesOf(j) : m > k}
                    \cup {BoundaryAfter(h_commits[j].line)})
    IN  CleanOption[StrippedLine(k)] \o ContinuationText(k + 1, next - 1)

S_Paris == <<"P","a","r","i","s">>
S_London == <<"L","o","n","d","o","n">>
S_Rome == <<"R","o","m","e">>

(* C7 amended: the options of a committed question are, in order and with  *)
(* duplicates kept, one entry per Option line read while it was open: the  *)
(* normalized text of that line followed by " " + line for each            *)
(* Continuation line read before the next Option line; so "(a) Paris",     *)
(* "(b) London", "(c) Rome" alone give ["Paris","London","Rome"].          *)
C7_OptionsWithContinuations ==
    \A j \in Commits :
        /\ h_commits[j].q.options =
              SubAt([k \in 1..Len(lines) |->
                        IF k \in OptionLinesOf(j)
                        THEN OptionWithContinuations(j, k) ELSE << >>],
                    OptionLinesOf(j))
        /\ LET q == h_commits[j].line
           IN  (/\ OptionLinesOf(j) = (q + 1)..(q + 3)
                /\ SubSeq(lines, q + 1, q + 3) = <<L_Paris, L_London, L_RomeOpt>>
                /\ \A k \in Body(j) : ~IsContinuationAt(k))
               => h_commits[j].q.options = <<S_Paris, S_London, S_Rome>>

\* a committed question with an option followed by a Continuation line
C7_Witness ==
    \E j \in Commits :
        \E k \in OptionLinesOf(j) : k + 1 \in Body(j) /\ IsContinuationAt(k + 1)

(* C8: an image or link list shorter than the commit indices is no error:  *)
(* a question committed with an index past the end of a list has that      *)
(* field unset, and so has every question committed after it.              *)
C8_ShortListsLeaveUnset ==
    \A j \in Commits :
        /\ h_commits[j].index >= Len(images) =>
              \A j2 \in j..Len(h_commits) : h_commits[j2].q.image = None
        /\ h_commits[j].index >= Len(links) =>
              \A j2 \in j..Len(h_commits) : h_commits[j2].q.video_link = None

\* three commits with one image and one link: the second index is past the
\* end of both lists, and a third commit follows
C8_Witness ==
    /\ pc = "done"
    /\ Len(images) = 1 /\ Len(links) = 1
    /\ Len(h_commits) = 3
    /\ h_commits[1].q.image # None
    /\ h_commits[2].index >= 1

\* one Topic line, one Question line, Option lines and one Answer line,
\* with no image and no link
Shaped ==
    /\ Len(lines) >= 3
    /\ IsTopicAt(1)
    /\ IsQuestionAt(2)
    /\ \A k \in 3..(Len(lines) - 1) : IsOptionAt(k)
    /\ IsAnswerAt(Len(lines))
    /\ images = << >> /\ links = << >>

S_OneKinematics == <<"O","N","E"," ","K","I","N","E","M","A","T","I","C","S">>
S_WhatIsSpeed == <<"W","h","a","t"," ","i","s"," ","s","p","e","e","d","?">>
S_Distance == <<"D","i","s","t","a","n","c","e">>
S_DistanceTime == <<"D","i","s","t","a","n","c","e","/","T","i","m","e">>
S_TimeDistance == <<"T","i","m","e","/","D","i","s","t","a","n","c","e">>
S_b == <<"b">>

ExampleDoc == <<L_Unit, L_Speed, L_Dist, L_DistTime, L_TimeDist, L_AnswerB>>

(* C9: a document of one Topic line, one Question line, n Option lines and *)
(* one Answer line, with no image and no link, gives one record with one   *)
(* question: the n normalized options in order, the normalized answer, no  *)
(* image and no link; the example document gives topic "ONE KINEMATICS",   *)
(* question "What is speed?", options ["Distance","Distance/Time",         *)
(* "Time/Distance"] and answer "b".                                         *)
C9_ShapedDocument ==
    /\ (pc = "done" /\ Shaped) =>
          /\ Len(result) = 1
          /\ result[1].topic = CleanTopic[StrippedLine(1)]
          /\ Len(result[1].questions) = 1
          /\ LET q == result[1].questions[1]
             IN  /\ q.question = CleanQuestion[StrippedLine(2)]
                 /\ q.options = [n \in 1..(Len(lines) - 3) |->
                                    CleanOption[StrippedLine(n + 2)]]
                 /\ q.answer = CleanAnswer[StrippedLine(Len(lines))]
                 /\ q.image = None
                 /\ q.video_link = None
    /\ (pc = "done" /\ lines = ExampleDoc /\ images = << >> /\ links = << >>) =>
          result = <<[topic |-> S_OneKinematics,
                      questions |-> <<[question |-> S_WhatIsSpeed,
                                       options |-> <<S_Distance, S_DistanceTime,
                                                     S_TimeDistance>>,
                                       answer |-> S_b,
                                       image |-> None,
                                       video_link |-> None]>>]>>

\* the example document, parsed
C9_Witness == pc = "done" /\ lines = ExampleDoc /\ Shaped

(* C10: normalization is idempotent: the text that clean_question,         *)
(* clean_option or clean_answer has just stored is left unchanged by the   *)
(* same function.                                                           *)
C10_Idempotent ==
    (pc = "loop" /\ i > 1 /\ Open) =>
        /\ IsQuestionAt(i - 1) =>
              clean_question(current_question[1].question)
                 = current_question[1].question
        /\ IsOptionAt(i - 1) =>
              clean_option(current_options[Len(current_options)])
                 = current_options[Len(current_options)]
        /\ IsAnswerAt(i - 1) =>
              clean_answer(current_question[1].answer) = current_question[1].answer

-----------------------------------------------------------------------------
(* The upload handler (src/bot.py, handle_document with the functions it   *)
(* calls) and extract_mcqs_from_pdf (src/extractor.py lines 15-57), which  *)
(* calls the parser above.  A call of a collaborator (the chat, the        *)
(* download, the PDF library, the file system) either returns or raises;   *)
(* the model takes both outcomes.                                          *)

\* the pages' text of the uploaded documents, as lines
Uploads ==
    { <<L_Blank>>,
      <<L_Paris, L_Blank>>,
      <<L_Q1, L_Q1>>,
      <<L_Unit2, L_Q1, L_Paris, L_AnswerB, L_Cont>> }

BotInit ==
    /\ file_is_pdf \in BOOLEAN
    /\ lines \in Uploads
    /\ images \in {ImageList(n) : n \in 0..MaxImages}
    /\ links \in {LinkList(n) : n \in 0..MaxLinks}
    /\ i = 1
    /\ pc = "idle"
    /\ structured_data = << >>
    /\ current_topic = None
    /\ current_question = << >>
    /\ current_options = << >>
    /\ question_counter = 0
    /\ image_counter = 0
    /\ result = << >>
    /\ h_qline = 0
    /\ h_commits = << >>
    /\ h_records = << >>
    /\ b_pc = "start"
    /\ temp_dir = "none"
    /\ fault = "none"
    /\ extract_raised = FALSE
    /\ extracted_data = << >>
    /\ sent = << >>
    /\ t_idx = 0
    /\ q_idx = 0
    /\ h_calls = << >>

\* the chat after reply_text or reply_photo, which returns or raises
Reply(message, delivered) == IF delivered THEN Append(sent, message) ELSE sent

\* the messages that carry extracted content (bot.py lines 115, 122, 145,
\* 152 and 159)
ContentMessages == {"topic", "question", "photo", "video", "separator"}

\* bot.py lines 49-54
Reject ==
    /\ b_pc = "start"
    /\ ~file_is_pdf
    /\ \E delivered \in BOOLEAN : sent' = Reply("reject", delivered)
    /\ b_pc' = "end"
    /\ UNCHANGED h_calls
    /\ UNCHANGED <<file_is_pdf, temp_dir, fault, extract_raised, extracted_data,
                   t_idx, q_idx>>
    /\ UNCHANGED parserVars

\* bot.py lines 57-58
CreateTempDir ==
    /\ b_pc = "start"
    /\ file_is_pdf
    /\ temp_dir' = "created"
    /\ b_pc' = "download"
    /\ UNCHANGED h_calls
    /\ UNCHANGED <<file_is_pdf, fault, extract_raised, extracted_data, sent,
                   t_idx, q_idx>>
    /\ UNCHANGED parserVars

\* bot.py lines 62-64: the reply, then get_file and download_to_drive
Download ==
    /\ b_pc = "download"
    /\ \E outcome \in {"done", "reply raises", "download raises"} :
          /\ sent' = Reply("downloading", outcome # "reply raises")
          /\ b_pc' = IF outcome = "done" THEN "announce" ELSE "except"
    /\ UNCHANGED h_calls
    /\ UNCHANGED <<file_is_pdf, temp_dir, fault, extract_raised, extracted_data,
                   t_idx, q_idx>>
    /\ UNCHANGED parserVars

\* bot.py lines 67-68
Announce ==
    /\ b_pc = "announce"
    /\ \E delivered \in BOOLEAN :
          /\ sent' = Reply("extracting", delivered)
          /\ b_pc' = IF delivered THEN "open" ELSE "except"
    /\ UNCHANGED h_calls
    /\ UNCHANGED <<file_is_pdf, temp_dir, fault, extract_raised, extracted_data,
                   t_idx, q_idx>>
    /\ UNCHANGED parserVars

\* a variant of extractor.py lines 55-57 that lets the exception go on to
\* the caller
ExceptionPropagates == [raised |-> TRUE, value |-> << >>]

\* extractor.py lines 55-57: an exception of the try block is logged and
\* the empty list is returned
ExceptionResult == [raised |-> FALSE, value |-> << >>]

\* what extract_images_from_page (lines 62-89) and extract_links_from_page
\* (lines 94-109) return when a call in their try block raises: the entries
\* added before it
CollectedBeforeFailure(list) ==
    {SubSeq(list, 1, n) :
        n \in 0..(IF list = << >> THEN 0 ELSE Len(list) - 1)}

\* extractor.py lines 27-47 and the call of line 50: fitz.open or get_text
\* raises, or the images or the links are cut short, or all of it returns
OpenDocument ==
    /\ b_pc = "open"
    /\ \E failing \in {"none", "open", "text", "images", "links"} :
          /\ fault' = failing
          /\ IF failing \in {"open", "text"}
             THEN /\ extract_raised' = ExceptionResult.raised
                  /\ extracted_data' = ExceptionResult.value
                  /\ b_pc' = "extracted"
                  /\ UNCHANGED <<images, links, pc>>
             ELSE /\ images' \in IF failing = "images"
                                 THEN CollectedBeforeFailure(images) ELSE {images}
                  /\ links' \in IF failing = "links"
                                THEN CollectedBeforeFailure(links) ELSE {links}
                  /\ pc' = "loop"
                  /\ b_pc' = "parsing"
                  /\ UNCHANGED <<extract_raised, extracted_data>>
    /\ UNCHANGED h_calls
    /\ UNCHANGED <<file_is_pdf, temp_dir, sent, t_idx, q_idx>>
    /\ UNCHANGED <<lines, i, structured_data, current_topic, current_question,
                   current_options, question_counter, image_counter, result,
                   h_qline, h_commits, h_records>>

\* extractor.py line 50 when parse_mcqs raises
ParserRaises ==
    /\ b_pc = "parsing"
    /\ pc = "loop"
    /\ fault' = "parse"
    /\ extract_raised' = ExceptionResult.raised
    /\ extracted_data' = ExceptionResult.value
    /\ pc' = "raised"
    /\ b_pc' = "extracted"
    /\ UNCHANGED h_calls
    /\ UNCHANGED <<file_is_pdf, temp_dir, sent, t_idx, q_idx>>
    /\ UNCHANGED <<lines, images, links, i, structured_data, current_topic,
                   current_question, current_options, question_counter,
                   image_counter, result, h_qline, h_commits, h_records>>

\* extractor.py lines 50-53
ReturnParsed ==
    /\ b_pc = "parsing"
    /\ pc = "done"
    /\ extract_raised' = FALSE
    /\ extracted_data' = result
    /\ b_pc' = "extracted"
    /\ UNCHANGED h_calls
    /\ UNCHANGED <<file_is_pdf, temp_dir, fault, sent, t_idx, q_idx>>
    /\ UNCHANGED parserVars

\* a variant of bot.py lines 73-81 that leaves the handler at once
ReportEmptyAndLeave ==
    /\ b_pc = "extracted"
    /\ ~extract_raised
    /\ extracted_data = << >>
    /\ \E delivered \in BOOLEAN : sent' = Reply("empty", delivered)
    /\ b_pc' = "end"
    /\ UNCHANGED h_calls
    /\ UNCHANGED <<file_is_pdf, temp_dir, fault, extract_raised, extracted_data,
                   t_idx, q_idx>>
    /\ UNCHANGED parserVars

\* bot.py lines 73-81: the return of line 81 goes through the finally block
ReportEmpty ==
    /\ b_pc = "extracted"
    /\ ~extract_raised
    /\ extracted_data = << >>
    /\ \E delivered \in BOOLEAN :
          /\ sent' = Reply("empty", delivered)
          /\ b_pc' = IF delivered THEN "finally" ELSE "except"
    /\ UNCHANGED h_calls
    /\ UNCHANGED <<file_is_pdf, temp_dir, fault, extract_raised, extracted_data,
                   t_idx, q_idx>>
    /\ UNCHANGED parserVars

\* bot.py line 70 when the call raises, and line 84 when it returned a
\* list that is not empty
StartSending ==
    /\ b_pc = "extracted"
    /\ extract_raised \/ extracted_data # << >>
    /\ IF extract_raised
       THEN /\ b_pc' = "except"
            /\ UNCHANGED <<t_idx, q_idx>>
       ELSE /\ b_pc' = "send"
            /\ t_idx' = 1
            /\ q_idx' = 0
    /\ UNCHANGED h_calls
    /\ UNCHANGED <<file_is_pdf, temp_dir, fault, extract_raised, extracted_data,
                   sent>>
    /\ UNCHANGED parserVars

\* bot.py lines 106-115
SendTopicHeader ==
    /\ b_pc = "send"
    /\ t_idx <= Len(extracted_data)
    /\ q_idx = 0
    /\ IF extracted_data[t_idx].questions = << >>
       THEN /\ t_idx' = t_idx + 1
            /\ UNCHANGED <<b_pc, sent, q_idx>>
       ELSE \E delivered \in BOOLEAN :
               /\ sent' = Reply("topic", delivered)
               /\ b_pc' = IF delivered THEN "send" ELSE "except"
               /\ q_idx' = IF delivered THEN 1 ELSE q_idx
               /\ UNCHANGED t_idx
    /\ UNCHANGED h_calls
    /\ UNCHANGED <<file_is_pdf, temp_dir, fault, extract_raised, extracted_data>>
    /\ UNCHANGED parserVars

\* send_single_question (bot.py lines 125-162) for the question of line 119:
\* the text, the photo when the file of the image is there, the video link;
\* a failure of the photo is logged (lines 153-154), the others raise
SendQuestion ==
    /\ b_pc = "send"
    /\ t_idx <= Len(extracted_data)
    /\ q_idx \in 1..Len(extracted_data[t_idx].questions)
    /\ LET question_data == extracted_data[t_idx].questions[q_idx]
           has_image == /\ question_data.image \notin {None, << >>}
                        /\ temp_dir = "created"
           has_link == question_data.video_link \notin {None, << >>}
       IN  \E text_sent, photo_sent, link_sent \in BOOLEAN :
              /\ sent' =
                    IF ~text_sent THEN sent
                    ELSE sent \o <<"question">>
                           \o (IF has_image /\ photo_sent THEN <<"photo">> ELSE << >>)
                           \o (IF has_link /\ link_sent THEN <<"video">> ELSE << >>)
              /\ IF text_sent /\ (has_link => link_sent)
                 THEN b_pc' = "send" /\ q_idx' = q_idx + 1
                 ELSE b_pc' = "except" /\ q_idx' = q_idx
    /\ UNCHANGED h_calls
    /\ UNCHANGED <<file_is_pdf, temp_dir, fault, extract_raised, extracted_data,
                   t_idx>>
    /\ UNCHANGED parserVars

\* bot.py line 122
SendSeparator ==
    /\ b_pc = "send"
    /\ t_idx <= Len(extracted_data)
    /\ q_idx = Len(extracted_data[t_idx].questions) + 1
    /\ \E delivered \in BOOLEAN :
          /\ sent' = Reply("separator", delivered)
          /\ b_pc' = IF delivered THEN "send" ELSE "except"
          /\ t_idx' = IF delivered THEN t_idx + 1 ELSE t_idx
          /\ q_idx' = IF delivered THEN 0 ELSE q_idx
    /\ UNCHANGED h_calls
    /\ UNCHANGED <<file_is_pdf, temp_dir, fault, extract_raised, extracted_data>>
    /\ UNCHANGED parserVars

\* bot.py line 85
Complete ==
    /\ b_pc = "send"
    /\ t_idx > Len(extracted_data)
    /\ \E delivered \in BOOLEAN :
          /\ sent' = Reply("complete", delivered)
          /\ b_pc' = IF delivered THEN "finally" ELSE "except"
    /\ UNCHANGED h_calls
    /\ UNCHANGED <<file_is_pdf, temp_dir, fault, extract_raised, extracted_data,
                   t_idx, q_idx>>
    /\ UNCHANGED parserVars

\* bot.py lines 87-92: when the reply raises too, the exception leaves the
\* handler after the finally block
HandleException ==
    /\ b_pc = "except"
    /\ \E delivered \in BOOLEAN : sent' = Reply("error", delivered)
    /\ b_pc' = "finally"
    /\ UNCHANGED h_calls
    /\ UNCHANGED <<file_is_pdf, temp_dir, fault, extract_raised, extracted_data,
                   t_idx, q_idx>>
    /\ UNCHANGED parserVars

\* bot.py lines 94-100: rmtree removes the directory, or raises and the
\* directory is kept
CleanUp ==
    /\ b_pc = "finally"
    /\ \E removed \in BOOLEAN : temp_dir' = IF removed THEN "removed" ELSE "kept"
    /\ b_pc' = "end"
    /\ UNCHANGED h_calls
    /\ UNCHANGED <<file_is_pdf, fault, extract_raised, extracted_data, sent,
                   t_idx, q_idx>>
    /\ UNCHANGED parserVars

BotNext ==
    \/ Reject
    \/ CreateTempDir
    \/ Download
    \/ Announce
    \/ OpenDocument
    \/ Next
    \/ ParserRaises
    \/ ReturnParsed
    \/ ReportEmpty
    \/ StartSending
    \/ SendTopicHeader
    \/ SendQuestion
    \/ SendSeparator
    \/ Complete
    \/ HandleException
    \/ CleanUp

SpecBot == BotInit /\ [][BotNext]_vars

-----------------------------------------------------------------------------
(* C11: extract_mcqs_from_pdf never raises for a document that cannot be   *)
(* opened: the caller gets the empty list, the value it also gets when no  *)
(* MCQ is found, and goes on to the same "could not extract" reply.        *)
C11_UnreadableGivesEmptyList ==
    fault = "open" =>
        /\ ~extract_raised
        /\ extracted_data = << >>
        /\ b_pc = "extracted" => ENABLED ReportEmpty /\ ~ENABLED StartSending

\* the handler has answered a document that could not be opened with the
\* reply of an empty extraction
C11_Witness ==
    /\ fault = "open"
    /\ b_pc = "finally"
    /\ sent # << >>
    /\ sent[Len(sent)] = "empty"

(* C12: a failure inside the extraction (get_text, the image or the link   *)
(* extraction, or the parser raising) reaches the caller of                *)
(* extract_mcqs_from_pdf as an exception, so that the caller can tell it   *)
(* from the empty list of "no MCQs found".                                 *)
C12_InternalFailureRaises ==
    fault \in {"text", "images", "links", "parse"} => extract_raised

(* C13: every non-blank line is handled as exactly one of Topic, Question, *)
(* Option, Answer and Continuation, the first in this order whose          *)
(* predicate it satisfies: a Topic line is handled as Topic whatever else  *)
(* it satisfies, a Question line that is no Topic as Question, and the     *)
(* Option and Answer predicates count only while a question is open.       *)
C13_OneCategoryByPriority ==
    [][(InLoop /\ NonBlank(i)) =>
          LET line == StrippedLine(i)
          IN  IF IsTopic[line]
              THEN /\ current_topic' = CleanTopic[line]
                   /\ Len(structured_data') > Len(structured_data)
                   /\ structured_data'[Len(structured_data')] =
                         [topic |-> CleanTopic[line], questions |-> << >>]
                   /\ current_question' = << >>
                   /\ question_counter' = question_counter
              ELSE IF IsQuestion[line]
              THEN /\ current_question' = <<NewQuestion(line)>>
                   /\ current_options' = << >>
                   /\ question_counter' = question_counter + 1
                   /\ current_topic' = current_topic
              ELSE IF Open /\ IsOption[line]
              THEN /\ current_options' = Append(current_options, CleanOption[line])
                   /\ UNCHANGED <<current_question, current_topic, structured_data,
                                  question_counter>>
              ELSE IF Open /\ IsAnswer[line]
              THEN /\ current_question' =
                         <<[current_question[1] EXCEPT !.answer = CleanAnswer[line]]>>
                   /\ UNCHANGED <<current_options, current_topic, structured_data,
                                  question_counter>>
              ELSE IF Open
              THEN /\ Len(current_options') = Len(current_options)
                   /\ current_question'[1].answer = current_question[1].answer
                   /\ UNCHANGED <<current_topic, structured_data, question_counter>>
              ELSE UNCHANGED <<current_question, current_options, current_topic,
                               structured_data, question_counter>>]_vars

\* "1) ans: x" has been handled as a Question and "A. unit ans:?", which
\* satisfies the four predicates, as the Topic that commits it
C13_Witness ==
    /\ pc = "loop"
    /\ i > 2
    /\ lines[i - 2] = L_QOA
    /\ lines[i - 1] = L_All
    /\ \E j \in Commits : h_commits[j].line = i - 2 /\ h_commits[j].at = i - 1
    /\ current_topic = CleanTopic[Stripped[L_All]]
    /\ ~Open

(* C14: a Continuation line read while a question is open is appended,    *)
(* after one space, to the last option when an option has been collected   *)
(* (an answer being set or not), and to the text of the question           *)
(* otherwise; nothing else changes, and the text is never dropped or       *)
(* joined without the space.                                               *)
C14_ContinuationAppended ==
    [][(InLoop /\ Open /\ IsContinuationAt(i)) =>
          LET line == StrippedLine(i)
          IN  /\ IF current_options # << >>
                 THEN /\ current_options' =
                            [current_options EXCEPT
                                ![Len(current_options)] = @ \o <<" ">> \o line]
                      /\ current_question' = current_question
                 ELSE /\ current_question' =
                            <<[current_question[1] EXCEPT
                                  !.question = @ \o <<" ">> \o line]>>
                      /\ current_options' = current_options
              /\ UNCHANGED <<current_topic, structured_data, question_counter,
                             image_counter>>]_vars

(* C15: image_counter starts at 0 and never goes down; it goes up by one   *)
(* on a Question line read while a question is open and on no other step:  *)
(* a commit made by a Topic line or at the end of the input, and an        *)
(* Option, Answer, Continuation or blank line, leave it as it is.          *)
C15_CounterStepsOnQuestionCommit ==
    /\ image_counter = 0
    /\ [][image_counter' =
             IF InLoop /\ IsQuestionAt(i) /\ Open
             THEN image_counter + 1
             ELSE image_counter]_vars

\* two commits, the first by a Question line and the second by a Topic
\* line, have moved the counter once
C15_Witness ==
    /\ Len(h_commits) = 2
    /\ h_commits[2].at <= Len(lines)
    /\ IsQuestionAt(h_commits[1].at)
    /\ IsTopicAt(h_commits[2].at)
    /\ image_counter = 1

(* C16: while no question is open, a line that is neither Topic nor        *)
(* Question, of the Option or Answer pattern or not, changes nothing but   *)
(* the position in the input: the current topic, the records, the options  *)
(* and the counters stay as they are and the loop goes on.                 *)
C16_DiscardLeavesState ==
    [][(InLoop /\ ~Open /\ NonBlank(i) /\ ~IsBoundaryAt(i)) =>
          /\ UNCHANGED <<current_topic, structured_data, current_question,
                         current_options, question_counter, image_counter,
                         result>>
          /\ pc' = "loop"
          /\ i' = i + 1]_vars

\* a line of the Option pattern and one of the Answer pattern have been
\* read before any question was opened
C16_Witness ==
    /\ pc = "loop"
    /\ i > 2
    /\ h_qline = 0
    /\ ~Open
    /\ \A k \in {i - 2, i - 1} : NonBlank(k) /\ ~IsBoundaryAt(k)
    /\ IsOption[StrippedLine(i - 2)]
    /\ ~IsOption[StrippedLine(i - 1)] /\ IsAnswer[StrippedLine(i - 1)]
    /\ current_options = << >>

-----------------------------------------------------------------------------
(* parse_mcqs called several times in a row by one process: the variables  *)
(* of lines 124-130 are locals of the call, made anew by each call.        *)

MaxCalls == 3

AgainInit ==
    /\ lines \in Uploads
    /\ images \in {ImageList(n) : n \in 0..MaxImages}
    /\ links \in {LinkList(n) : n \in 0..MaxLinks}
    /\ i = 1
    /\ pc = "loop"
    /\ structured_data = << >>
    /\ current_topic = None
    /\ current_question = << >>
    /\ current_options = << >>
    /\ question_counter = 0
    /\ image_counter = 0
    /\ result = << >>
    /\ h_qline = 0
    /\ h_commits = << >>
    /\ h_records = << >>
    /\ HostIdle

\* a variant of lines 124-130 in which image_counter is kept from the call
\* before
CallAgainKeepingCounter ==
    /\ pc = "done"
    /\ Len(h_calls) + 1 < MaxCalls
    /\ h_calls' = Append(h_calls, [lines |-> lines, result |-> result])
    /\ lines' \in Uploads
    /\ i' = 1
    /\ pc' = "loop"
    /\ structured_data' = << >>
    /\ current_topic' = None
    /\ current_question' = << >>
    /\ current_options' = << >>
    /\ question_counter' = 0
    /\ result' = << >>
    /\ h_qline' = 0
    /\ h_commits' = << >>
    /\ h_records' = << >>
    /\ UNCHANGED <<images, links, image_counter>>
    /\ UNCHANGED <<file_is_pdf, b_pc, temp_dir, fault, extract_raised,
                   extracted_data, sent, t_idx, q_idx>>

\* the call has returned (line 208) and parse_mcqs is called with another
\* text: lines 124-130
CallAgain ==
    /\ pc = "done"
    /\ Len(h_calls) + 1 < MaxCalls
    /\ h_calls' = Append(h_calls, [lines |-> lines, result |-> result])
    /\ lines' \in Uploads
    /\ i' = 1
    /\ pc' = "loop"
    /\ structured_data' = << >>
    /\ current_topic' = None
    /\ current_question' = << >>
    /\ current_options' = << >>
    /\ question_counter' = 0
    /\ image_counter' = 0
    /\ result' = << >>
    /\ h_qline' = 0
    /\ h_commits' = << >>
    /\ h_records' = << >>
    /\ UNCHANGED <<images, links>>
    /\ UNCHANGED <<file_is_pdf, b_pc, temp_dir, fault, extract_raised,
                   extracted_data, sent, t_idx, q_idx>>

AgainNext ==
    \/ Next
    \/ CallAgain

SpecAgain == AgainInit /\ [][AgainNext]_vars

-----------------------------------------------------------------------------
\* the lines of the input handled as Question
QuestionLinesOfInput == {k \in 1..Len(lines) : IsQuestionAt(k)}

\* the j-th element of the set of numbers K
NthOf(K, j) == CHOOSE k \in K : Cardinality({m \in K : m <= k}) = j

IsPrefix(p, s) == Len(p) <= Len(s) /\ SubSeq(s, 1, Len(p)) = p

(* C18: every line handled as a Question is committed once: the final     *)
(* output, read record after record, holds as many questions as the input  *)
(* has Question lines, the j-th of them opened by the j-th Question line.  *)
C18_EachQuestionLineOnce ==
    pc = "done" =>
        LET out == Flatten(result)
        IN  /\ Len(out) = Cardinality(QuestionLinesOfInput)
            /\ Len(h_commits) = Len(out)
            /\ \A j \in 1..Len(out) :
                  LET k == NthOf(QuestionLinesOfInput, j)
                  IN  /\ h_commits[j].line = k
                      /\ out[j] = h_commits[j].q
                      /\ IsPrefix(CleanQuestion[StrippedLine(k)], out[j].question)

\* an output of two records for an input with two Question lines or more,
\* the last of them committed at the end of the input
C18_Witness ==
    /\ pc = "done"
    /\ Cardinality(QuestionLinesOfInput) >= 2
    /\ Len(result) >= 2
    /\ h_commits[Len(h_commits)].at = Len(lines) + 1

\* the last Topic line before line k (0: there is none)
TopicBefore(k) == Max({m \in 1..(k - 1) : IsTopicAt(m)} \cup {0})

(* C19: in the final output each question is in the record of the last     *)
(* Topic line before its Question line, or in the record named "General    *)
(* Questions" when no Topic line is before it; a Topic line read while a   *)
(* question is open leaves that question in the record before its own,     *)
(* which starts empty.                                                     *)
C19_QuestionUnderPrecedingTopic ==
    /\ pc = "done" =>
          /\ \A j \in Commits :
                \E r \in 1..Len(result) : h_records[r] = TopicBefore(h_commits[j].line)
          /\ \A r \in 1..Len(result) :
                /\ result[r].topic = TopicNameOf(h_records[r])
                /\ result[r].questions =
                      SubAt([j \in Commits |-> h_commits[j].q],
                            {j \in Commits :
                                TopicBefore(h_commits[j].line) = h_records[r]})
    /\ (pc = "loop" /\ i > 1 /\ IsTopicAt(i - 1) /\ h_commits # << >>
           /\ h_commits[Len(h_commits)].at = i - 1) =>
          LET n == Len(structured_data)
              before == structured_data[n - 1].questions
          IN  /\ n >= 2
              /\ h_records[n] = i - 1
              /\ structured_data[n].questions = << >>
              /\ before # << >>
              /\ before[Len(before)] = h_commits[Len(h_commits)].q

\* a Topic line has committed the open question and its own record has
\* got a question later
C19_Witness ==
    /\ pc = "done"
    /\ \E j \in Commits :
          /\ h_commits[j].at <= Len(lines)
          /\ IsTopicAt(h_commits[j].at)
          /\ h_commits[j].at \in Range(h_records)

-----------------------------------------------------------------------------
(* C20: handle_document rejects an upload that is no PDF before it creates *)
(* a directory; once the directory is created, every way out of the        *)
(* handler goes through the attempt to remove it, and no message carrying  *)
(* extracted content is sent at or after that attempt.                     *)
C20_CleanupOnEveryPath ==
    /\ temp_dir = "none"
    /\ [][/\ ~file_is_pdf => temp_dir' = "none"
          /\ b_pc' = "end" => temp_dir' # "created"
          /\ temp_dir' # temp_dir =>
                \/ temp_dir = "none" /\ temp_dir' = "created"
                \/ temp_dir = "created" /\ temp_dir' \in {"removed", "kept"}
          /\ sent' # sent =>
                /\ temp_dir' = temp_dir
                /\ sent'[Len(sent')] \in ContentMessages => temp_dir = "created"]_vars

\* the questions and a photo have been sent, and the directory removed
C20_Witness ==
    /\ b_pc = "end"
    /\ temp_dir = "removed"
    /\ \E k \in 1..Len(sent) : sent[k] = "photo"
    /\ sent[Len(sent)] = "complete"

====
